---- MODULE Spec2Model ----
(***************************************************************************)
(* Model of the subject-aware crop engine of linux-media-uploader          *)
(* (src/video_processor.py, class VideoProcessor).                         *)
(*                                                                         *)
(* Arithmetic.  The Python code works with floats; the model works with    *)
(* integers and states every float test as the equivalent integer test:    *)
(*   width / height > 9/16               <=>  16*width > 9*height          *)
(*   abs(width / height - 9/16) < 0.01   <=>  100*|16*width - 9*height|    *)
(*                                              < 16*height                *)
(*   int(height * (9/16))                 =   (9*height) \div 16           *)
(*   int(width / (9/16))                  =   (16*width) \div 9            *)
(*   int((i / n) * total)                 =   (i*total) \div n             *)
(*   int(sum / n)                         =   sum / n truncated toward 0   *)
(* 9/16 is a dyadic rational, so height * (9/16) is exact; the other       *)
(* equivalences were compared against CPython floats for all widths and    *)
(* heights below 3000 and all frame counts below 200000 (they agree        *)
(* everywhere, also where the ratio differs from 9/16 by exactly 0.01).    *)
(***************************************************************************)
EXTENDS Integers, Sequences, FiniteSets, TLC

----------------------------------------------------------------------------
(* Bounds of the model *)

\* widths and heights 1..MaxDim are explored exhaustively
MaxDim == 96

\* how far outside the frame a subject coordinate is tried
SubjectMargin == 2

\* widths and heights 1..MaxCallDim are used where two planner calls are
\* compared
MaxCallDim == 9

\* frame counts -1..MaxFrames are reported by the capture
MaxFrames == 7

\* detector outputs are multiples of 1/NormDen of the frame size
NormDen == 4

\* the face detector reports at most MaxFaces faces where single
\* detect_subjects calls are explored
MaxFaces == 2

\* process_video is run on sources of 1..MaxSourceDim columns and rows
MaxSourceDim == 9

\* pad_height of the padding plans handed to process_video: 0..MaxPad
MaxPad == 5

\* a schedule_upload request names 1..MaxBatch videos
MaxBatch == 2

\* number of schedule_upload requests the server receives
MaxRequests == 2

----------------------------------------------------------------------------
(* Program constants *)

\* sample_frames = min(5, total_frames)
MaxSamples == 5

\* target_ratio = 9/16
TargetNum == 9
TargetDen == 16

\* the tolerance 0.01 of the "already correct aspect ratio" test
TolNum == 1
TolDen == 100

----------------------------------------------------------------------------
(* Python built-ins used by the code *)

Abs(n) == IF n < 0 THEN -n ELSE n

Max(a, b) == IF a >= b THEN a ELSE b

Min(a, b) == IF a <= b THEN a ELSE b

\* int(a / b) for integers a and b > 0: truncation toward zero
TruncDiv(a, b) == IF a >= 0 THEN a \div b ELSE -((-a) \div b)

----------------------------------------------------------------------------
(* VideoProcessor.calculate_crop_parameters *)

\* abs(current_ratio - target_ratio) < 0.01
RatioMatchesExactOnly(width, height) ==
    TargetDen * width = TargetNum * height

RatioMatches(width, height) ==
    TolDen * Abs(TargetDen * width - TargetNum * height)
        < TolNum * TargetDen * height

\* current_ratio > target_ratio
TooWide(width, height) == TargetDen * width > TargetNum * height

\* target_width = int(height * target_ratio)
TargetWidthRoundedUp(height) ==
    (TargetNum * height + TargetDen - 1) \div TargetDen

TargetWidth(height) == (TargetNum * height) \div TargetDen

\* target_height = int(width / target_ratio)
TargetHeightRoundedUp(width) ==
    (TargetDen * width + TargetNum - 1) \div TargetNum

TargetHeightMultiplied(width) == (TargetNum * width) \div TargetDen

TargetHeight(width) == (TargetDen * width) \div TargetNum

\* max(0, min(subject - target // 2, size - target))
CropStartNoLowerClamp(subject, target, size) ==
    Min(subject - target \div 2, size - target)

CropStart(subject, target, size) ==
    Max(0, Min(subject - target \div 2, size - target))

NoCropPlan(width, height) ==
    [needs_crop |-> FALSE, crop_x |-> 0, crop_y |-> 0,
     crop_width |-> width, crop_height |-> height]

CropWidthPlan(width, height, subject_x) ==
    LET target_width == TargetWidth(height)
    IN  [needs_crop |-> TRUE,
         crop_x |-> CropStart(subject_x, target_width, width),
         crop_y |-> 0,
         crop_width |-> target_width, crop_height |-> height,
         operation |-> "crop_width"]

CropHeightPlanWithoutOperation(width, height, subject_y) ==
    LET target_height == TargetHeight(width)
    IN  [needs_crop |-> TRUE,
         crop_x |-> 0,
         crop_y |-> CropStart(subject_y, target_height, height),
         crop_width |-> width, crop_height |-> target_height]

CropHeightPlan(width, height, subject_y) ==
    LET target_height == TargetHeight(width)
    IN  [needs_crop |-> TRUE,
         crop_x |-> 0,
         crop_y |-> CropStart(subject_y, target_height, height),
         crop_width |-> width, crop_height |-> target_height,
         operation |-> "crop_height"]

AddPaddingPlan(width, height) ==
    [needs_crop |-> TRUE, crop_x |-> 0, crop_y |-> 0,
     crop_width |-> width, crop_height |-> height,
     pad_height |-> TargetHeight(width) - height,
     operation |-> "add_padding"]

calculate_crop_parameters(info, center) ==
    LET width == info.width
        height == info.height
        subject_x == center[1]
        subject_y == center[2]
    IN  IF RatioMatches(width, height)
        THEN NoCropPlan(width, height)
        ELSE IF TooWide(width, height)
        THEN CropWidthPlan(width, height, subject_x)
        ELSE IF TargetHeight(width) <= height
        THEN CropHeightPlan(width, height, subject_y)
        ELSE AddPaddingPlan(width, height)

\* current_ratio = width / height raises ZeroDivisionError when height is 0;
\* nothing else in the function can raise for integer arguments
PlannerRaises(info) == info.height = 0

\* the operation a plan selects; the no-op plan carries no 'operation' key
Operation(plan) ==
    IF "operation" \in DOMAIN plan THEN plan.operation ELSE "none"

\* the frame a plan produces (process_video: crop rectangle, or the source
\* with pad_height rows added)
OutputInfo(plan) ==
    [width |-> plan.crop_width,
     height |-> IF Operation(plan) = "add_padding"
                THEN plan.crop_height + plan.pad_height
                ELSE plan.crop_height]

----------------------------------------------------------------------------
(* VideoProcessor.detect_subjects *)

\* A detector outcome is a record: error is TRUE when the detector raised.
\* A face detection is the centre <<x, y>> of its relative bounding box
\* (xmin + width/2, ymin + height/2) in units of 1/NormDen; the pose is the
\* four landmarks left shoulder, right shoulder, left hip, right hip, each
\* <<x, y>> in units of 1/NormDen.

\* int(relative * size)
ToPixel(relative, size) == TruncDiv(relative * size, NormDen)

\* the subjects appended by the face block
FaceSubjectsFirstOnly(frame, face) ==
    IF face.error \/ face.detections = <<>>
    THEN <<>>
    ELSE << <<ToPixel(face.detections[1][1], frame.width),
              ToPixel(face.detections[1][2], frame.height)>> >>

FaceSubjects(frame, face) ==
    IF face.error
    THEN <<>>
    ELSE [k \in 1..Len(face.detections) |->
             <<ToPixel(face.detections[k][1], frame.width),
               ToPixel(face.detections[k][2], frame.height)>>]

\* the subjects appended by the pose block:
\* int(((ls.x + rs.x + lh.x + rh.x) / 4) * width), the same for y
PoseSubjects(frame, pose) ==
    IF pose.error \/ ~pose.found
    THEN <<>>
    ELSE LET l == pose.landmarks
         IN  << <<TruncDiv((l[1][1] + l[2][1] + l[3][1] + l[4][1])
                               * frame.width, 4 * NormDen),
                  TruncDiv((l[1][2] + l[2][2] + l[3][2] + l[4][2])
                               * frame.height, 4 * NormDen)>> >>

RECURSIVE SumOf(_, _)
\* sum(c[k] for c in points)
SumOf(points, k) ==
    IF points = <<>> THEN 0 ELSE Head(points)[k] + SumOf(Tail(points), k)

\* (int(sum_x / len), int(sum_y / len))
MeanPoint(points) ==
    <<TruncDiv(SumOf(points, 1), Len(points)),
      TruncDiv(SumOf(points, 2), Len(points))>>

\* cv2.cvtColor is called before the try blocks: when it raises, the
\* exception leaves detect_subjects; the two detector calls are inside try
\* blocks that catch every Exception
LocatorRaises(convert_ok, face, pose) == ~convert_ok

detect_subjectsOneTryBlock(frame, face, pose) ==
    LET subjects == IF face.error
                    THEN <<>>
                    ELSE FaceSubjects(frame, face) \o PoseSubjects(frame, pose)
    IN  IF subjects # <<>>
        THEN MeanPoint(subjects)
        ELSE <<frame.width \div 2, frame.height \div 2>>

detect_subjectsFallbackOrigin(frame, face, pose) ==
    LET subjects == FaceSubjects(frame, face) \o PoseSubjects(frame, pose)
    IN  IF subjects # <<>>
        THEN MeanPoint(subjects)
        ELSE <<0, 0>>

detect_subjects(frame, face, pose) ==
    LET subjects == FaceSubjects(frame, face) \o PoseSubjects(frame, pose)
    IN  IF subjects # <<>>
        THEN MeanPoint(subjects)
        ELSE <<frame.width \div 2, frame.height \div 2>>

----------------------------------------------------------------------------
(* VideoProcessor.analyze_video_for_cropping: helpers *)

\* sample_frames = min(5, total_frames)
SampleFramesAlwaysFive(total) == MaxSamples

SampleFrames(total) == Min(MaxSamples, total)

\* frame_num = int((i / sample_frames) * total_frames)
FrameNum(index, samples_planned, total) == (index * total) \div samples_planned

\* the average of the subject centers, or the center of the frame
AggregateOverAllSamples(centers, info) ==
    IF centers # <<>>
    THEN <<TruncDiv(SumOf(centers, 1), MaxSamples),
           TruncDiv(SumOf(centers, 2), MaxSamples)>>
    ELSE <<info.width \div 2, info.height \div 2>>

Aggregate(centers, info) ==
    IF centers # <<>>
    THEN MeanPoint(centers)
    ELSE <<info.width \div 2, info.height \div 2>>

----------------------------------------------------------------------------
(* State *)

VARIABLES
    pc,              \* position of the running call
    video_info,      \* [width, height] of the video
    subject_center,  \* <<x, y>> handed to the planner
    crop_params,     \* the plan returned by calculate_crop_parameters
    replan,          \* the plan for the output frame of crop_params
    first_call,      \* the first planner call of a series: inputs and plan
    cap,             \* the cv2.VideoCapture handle of the analysis
    total_frames,    \* int(cap.get(CAP_PROP_FRAME_COUNT))
    sample_frames,   \* min(5, total_frames)
    i,               \* loop index of the sampling loop
    subject_centers, \* the list of per-frame subject centers
    samples,         \* history: one record per sampled index
    locator_call,    \* history: the last detect_subjects call
    result,          \* what analyze_video_for_cropping returned
    trace,           \* history: the steps of the analysis, in order
    video_stream,    \* the filter process_video applies to the input video
    output,          \* the file ffmpeg.run wrote for process_video
    upload_queue,    \* app.py: the list of jobs waiting for upload
    upload_status,   \* app.py: job id -> status
    history,         \* app.py: the entries of the history file
    timers,          \* started threading.Timer objects that have not fired
    workers,         \* the invocations of process_upload_queue, in order
    issued,          \* number of uuid4 job ids generated so far
    requests,        \* number of schedule_upload requests served so far
    response,        \* the answer to the last schedule_upload request
    scan             \* the last scan_folder: the history it loaded, its list

planVars == <<pc, video_info, subject_center, crop_params, replan>>

analyzeVars == <<cap, total_frames, sample_frames, i, subject_centers,
                 samples, locator_call, result, trace>>

processVars == <<video_stream, output>>

uploadVars == <<upload_queue, upload_status, history, timers, workers,
                issued, requests, response, scan>>

vars == <<planVars, first_call, analyzeVars, processVars, uploadVars>>

\* the analysis variables before an analysis has started
AnalysisIdle ==
    /\ cap = "none"
    /\ total_frames = 0
    /\ sample_frames = 0
    /\ i = 0
    /\ subject_centers = <<>>
    /\ samples = <<>>
    /\ locator_call = [made |-> FALSE]
    /\ result = "none"
    /\ trace = <<>>

NoCall == [made |-> FALSE]

None == [none |-> TRUE]

\* the variables of process_video before it is called
ProcessIdle ==
    /\ video_stream = None
    /\ output = None

\* app.py after import: upload_queue = [], upload_status = {}, and an empty
\* history file, no timer, no request
UploadIdle ==
    /\ upload_queue = <<>>
    /\ upload_status = <<>>
    /\ history = <<>>
    /\ timers = 0
    /\ workers = <<>>
    /\ issued = 0
    /\ requests = 0
    /\ response = "none"
    /\ scan = None

Dims == 1..MaxDim \cup {1080, 1920}

SubjectCoords(size) ==
    {-SubjectMargin, -1, 0, size \div 2, size - 1, size, size + SubjectMargin}

----------------------------------------------------------------------------
(* Planner specification: one video, one planner call, and the planner     *)
(* applied again to the frame the plan produces                            *)

InitPlan ==
    /\ pc = "plan"
    /\ video_info \in [width : Dims, height : Dims]
    /\ subject_center = None
    /\ crop_params = None
    /\ replan = None
    /\ first_call = NoCall
    /\ AnalysisIdle
    /\ ProcessIdle
    /\ UploadIdle

CallPlanner ==
    /\ pc = "plan"
    /\ \E x \in SubjectCoords(video_info.width),
          y \in SubjectCoords(video_info.height) :
          /\ subject_center' = <<x, y>>
          /\ IF PlannerRaises(video_info)
             THEN pc' = "raised" /\ crop_params' = None
             ELSE /\ pc' = "planned"
                  /\ crop_params' =
                         calculate_crop_parameters(video_info, <<x, y>>)
    /\ UNCHANGED <<video_info, replan, first_call, analyzeVars>>
    /\ UNCHANGED <<processVars, uploadVars>>

\* the output frame of the plan is planned again (width / height raises
\* ZeroDivisionError for a frame without rows)
Replan ==
    /\ pc = "planned"
    /\ OutputInfo(crop_params).height > 0
    /\ replan' = calculate_crop_parameters(OutputInfo(crop_params),
                                           subject_center)
    /\ pc' = "replanned"
    /\ UNCHANGED <<video_info, subject_center, crop_params, first_call,
                   analyzeVars>>
    /\ UNCHANGED <<processVars, uploadVars>>

NextPlan == CallPlanner \/ Replan

SpecPlan == InitPlan /\ [][NextPlan]_vars

----------------------------------------------------------------------------
(* Call-series specification: one VideoProcessor receives planner calls    *)
(* with arbitrary arguments, one after the other; the first call is        *)
(* remembered                                                              *)

CallDims == 1..MaxCallDim

\* the subject at the top left corner or at the bottom right corner
CallSubjects(info) == {<<0, 0>>, <<info.width, info.height>>}

InitCalls ==
    /\ pc = "idle"
    /\ video_info = None
    /\ subject_center = None
    /\ crop_params = None
    /\ replan = None
    /\ first_call = NoCall
    /\ AnalysisIdle
    /\ ProcessIdle
    /\ UploadIdle

\* the effect of one call calculate_crop_parameters(info, center)
PlannerCall(info, center) ==
    /\ video_info' = info
    /\ subject_center' = center
    /\ IF PlannerRaises(info)
       THEN pc' = "raised" /\ crop_params' = None
       ELSE /\ pc' = "returned"
            /\ crop_params' = calculate_crop_parameters(info, center)
    /\ UNCHANGED <<replan, analyzeVars>>
    /\ UNCHANGED <<processVars, uploadVars>>

FirstCall ==
    /\ pc = "idle"
    /\ \E info \in [width : CallDims, height : CallDims] :
          \E center \in CallSubjects(info) :
             /\ PlannerCall(info, center)
             /\ first_call' = [made |-> TRUE, video_info |-> info,
                               subject_center |-> center,
                               crop_params |-> crop_params',
                               others_since |-> FALSE]

\* others_since records that a call with other arguments was made after the
\* first call
LaterCall ==
    /\ pc = "returned"
    /\ \E info \in [width : CallDims, height : CallDims] :
          \E center \in CallSubjects(info) :
             /\ PlannerCall(info, center)
             /\ first_call' =
                   IF info = first_call.video_info
                      /\ center = first_call.subject_center
                   THEN first_call
                   ELSE [first_call EXCEPT !.others_since = TRUE]

NextCalls == FirstCall \/ LaterCall

SpecCalls == InitCalls /\ [][NextCalls]_vars

----------------------------------------------------------------------------
(* Analysis specification: one call of analyze_video_for_cropping          *)

\* the videos that are analysed: 16:9 landscape, exact 9:16, near 9:16,
\* a tall strip and a square
VideoInfos ==
    {[width |-> 16, height |-> 9], [width |-> 9, height |-> 16],
     [width |-> 5, height |-> 9], [width |-> 9, height |-> 20],
     [width |-> 12, height |-> 12]}

FrameCounts == -1..MaxFrames

\* the outcomes of self.face_detection.process: an exception, no detection,
\* one face, two faces
FaceOutcomes ==
    {[error |-> TRUE, detections |-> <<>>]} \cup
    {[error |-> FALSE, detections |-> d] :
        d \in {<<>>, << <<1, 1>> >>, << <<1, 1>>, <<NormDen - 1, 2>> >>}}

\* the outcomes of self.pose.process: an exception, no landmarks, a torso
PoseOutcomes ==
    {[error |-> TRUE, found |-> FALSE, landmarks |-> <<>>],
     [error |-> FALSE, found |-> FALSE, landmarks |-> <<>>],
     [error |-> FALSE, found |-> TRUE,
      landmarks |-> << <<2, 1>>, <<NormDen, 1>>, <<2, 3>>, <<NormDen, 3>> >>]}

\* the number of detections the two detectors deliver for a frame (none
\* when the detector raises)
Delivered(face, pose) ==
    (IF face.error THEN 0 ELSE Len(face.detections))
        + (IF pose.error \/ ~pose.found THEN 0 ELSE 1)

InitAnalyze ==
    /\ pc = "probe"
    /\ video_info = None
    /\ subject_center = None
    /\ crop_params = None
    /\ replan = None
    /\ first_call = NoCall
    /\ AnalysisIdle
    /\ ProcessIdle
    /\ UploadIdle

\* get_video_info fails: return {'error': 'Could not read video information'}
ProbeFails ==
    /\ pc = "probe"
    /\ result' = "error_info"
    /\ pc' = "done"
    /\ trace' = Append(trace, "probe")
    /\ UNCHANGED <<video_info, subject_center, crop_params, replan,
                   first_call, cap, total_frames, sample_frames, i,
                   subject_centers, samples, locator_call>>
    /\ UNCHANGED <<processVars, uploadVars>>

\* get_video_info succeeds; a video that already has the target ratio is
\* returned as 'needs_processing': False
Probe ==
    /\ pc = "probe"
    /\ \E info \in VideoInfos :
          /\ video_info' = info
          /\ IF RatioMatches(info.width, info.height)
             THEN result' = "not_needed" /\ pc' = "done"
             ELSE result' = result /\ pc' = "open"
    /\ trace' = Append(trace, "probe")
    /\ UNCHANGED <<subject_center, crop_params, replan, first_call, cap,
                   total_frames, sample_frames, i, subject_centers, samples,
                   locator_call>>
    /\ UNCHANGED <<processVars, uploadVars>>

\* cap = cv2.VideoCapture(video_path) is not opened:
\* return {'error': 'Could not open video file'}
OpenFails ==
    /\ pc = "open"
    /\ cap' = "unopened"
    /\ result' = "error_open"
    /\ pc' = "done"
    /\ trace' = Append(trace, "open")
    /\ UNCHANGED <<video_info, subject_center, crop_params, replan,
                   first_call, total_frames, sample_frames, i,
                   subject_centers, samples, locator_call>>
    /\ UNCHANGED <<processVars, uploadVars>>

\* the capture is opened and reports its frame count
Open ==
    /\ pc = "open"
    /\ cap' = "open"
    /\ \E total \in FrameCounts :
          /\ total_frames' = total
          /\ sample_frames' = SampleFrames(total)
    /\ i' = 0
    /\ subject_centers' = <<>>
    /\ pc' = "sample"
    /\ trace' = Append(trace, "open")
    /\ UNCHANGED <<video_info, subject_center, crop_params, replan,
                   first_call, samples, locator_call, result>>
    /\ UNCHANGED <<processVars, uploadVars>>

\* one iteration of the sampling loop whose cap.read() fails
SampleNotDecoded ==
    /\ pc = "sample"
    /\ i < sample_frames
    /\ samples' = Append(samples,
                         [frame_num |-> FrameNum(i, sample_frames, total_frames),
                          ret |-> FALSE])
    /\ i' = i + 1
    /\ trace' = Append(trace, "decode")
    /\ UNCHANGED <<pc, video_info, subject_center, crop_params, replan,
                   first_call, cap, total_frames, sample_frames,
                   subject_centers, locator_call, result>>
    /\ UNCHANGED <<processVars, uploadVars>>

\* one iteration whose frame is decoded and handed to detect_subjects
SampleDecoded ==
    /\ pc = "sample"
    /\ i < sample_frames
    /\ \E face \in FaceOutcomes, pose \in PoseOutcomes :
          LET center == detect_subjects(video_info, face, pose)
          IN  /\ subject_centers' = Append(subject_centers, center)
              /\ samples' = Append(samples,
                     [frame_num |-> FrameNum(i, sample_frames, total_frames),
                      ret |-> TRUE, center |-> center,
                      detections |-> Delivered(face, pose)])
              /\ locator_call' = [made |-> TRUE, raised |-> FALSE,
                                  frame |-> video_info,
                                  face |-> face, pose |-> pose,
                                  center |-> center]
    /\ i' = i + 1
    /\ trace' = Append(Append(trace, "decode"), "locate")
    /\ UNCHANGED <<pc, video_info, subject_center, crop_params, replan,
                   first_call, cap, total_frames, sample_frames, result>>
    /\ UNCHANGED <<processVars, uploadVars>>

\* one iteration whose frame is decoded but cv2.cvtColor, which
\* detect_subjects calls outside its try blocks, raises: the exception
\* leaves analyze_video_for_cropping
SampleLocatorRaises ==
    /\ pc = "sample"
    /\ i < sample_frames
    /\ samples' = Append(samples,
                         [frame_num |-> FrameNum(i, sample_frames, total_frames),
                          ret |-> TRUE, center |-> None])
    /\ locator_call' = [made |-> TRUE, raised |-> TRUE, frame |-> video_info]
    /\ result' = "exception"
    /\ pc' = "done"
    /\ trace' = Append(Append(trace, "decode"), "locate")
    /\ UNCHANGED <<video_info, subject_center, crop_params, replan,
                   first_call, cap, total_frames, sample_frames, i,
                   subject_centers>>
    /\ UNCHANGED <<processVars, uploadVars>>

\* the loop is over: cap.release()
Release ==
    /\ pc = "sample"
    /\ i >= sample_frames
    /\ cap' = "released"
    /\ pc' = "aggregate"
    /\ trace' = Append(trace, "release")
    /\ UNCHANGED <<video_info, subject_center, crop_params, replan,
                   first_call, total_frames, sample_frames, i,
                   subject_centers, samples, locator_call, result>>
    /\ UNCHANGED <<processVars, uploadVars>>

\* average the centers, call the planner and return its plan
PlanAndReturn ==
    /\ pc = "aggregate"
    /\ subject_center' = Aggregate(subject_centers, video_info)
    /\ crop_params' = calculate_crop_parameters(video_info, subject_center')
    /\ result' = "plan"
    /\ pc' = "done"
    /\ trace' = Append(trace, "plan")
    /\ UNCHANGED <<video_info, replan, first_call, cap, total_frames,
                   sample_frames, i, subject_centers, samples, locator_call>>
    /\ UNCHANGED <<processVars, uploadVars>>

NextAnalyze ==
    \/ ProbeFails
    \/ Probe
    \/ OpenFails
    \/ Open
    \/ SampleNotDecoded
    \/ SampleDecoded
    \/ SampleLocatorRaises
    \/ Release
    \/ PlanAndReturn

SpecAnalyze == InitAnalyze /\ [][NextAnalyze]_vars

----------------------------------------------------------------------------
(* Locator specification: one call of detect_subjects on one frame         *)

LocateFrames ==
    {[width |-> 16, height |-> 9], [width |-> 9, height |-> 20],
     [width |-> 7, height |-> 5]}

\* relative coordinates, also a little outside the frame
RelCoords == -1..(NormDen + 1)

RelPoints == RelCoords \X RelCoords

LocateFaceOutcomes ==
    {[error |-> TRUE, detections |-> <<>>]} \cup
    {[error |-> FALSE, detections |-> d] :
        d \in UNION {[1..n -> RelPoints] : n \in 0..MaxFaces}}

\* left shoulder, right shoulder, left hip, right hip
LandmarkSets ==
    {<< <<2, 1>>, <<NormDen, 1>>, <<2, 3>>, <<NormDen, 3>> >>,
     << <<0, 0>>, <<1, 0>>, <<0, 1>>, <<1, 2>> >>,
     << <<-1, 0>>, <<0, 0>>, <<-1, 1>>, <<0, NormDen + 1>> >>}

LocatePoseOutcomes ==
    {[error |-> TRUE, found |-> FALSE, landmarks |-> <<>>],
     [error |-> FALSE, found |-> FALSE, landmarks |-> <<>>]} \cup
    {[error |-> FALSE, found |-> TRUE, landmarks |-> l] : l \in LandmarkSets}

InitLocate ==
    /\ pc = "idle"
    /\ video_info = None
    /\ subject_center = None
    /\ crop_params = None
    /\ replan = None
    /\ first_call = NoCall
    /\ AnalysisIdle
    /\ ProcessIdle
    /\ UploadIdle

\* detect_subjects(frame) with the given outcomes of cv2.cvtColor and of the
\* two detectors
Locate ==
    /\ pc = "idle"
    /\ \E frame \in LocateFrames, convert_ok \in BOOLEAN,
          face \in LocateFaceOutcomes, pose \in LocatePoseOutcomes :
          IF LocatorRaises(convert_ok, face, pose)
          THEN /\ pc' = "raised"
               /\ locator_call' = [made |-> TRUE, raised |-> TRUE,
                                   frame |-> frame,
                                   convert_ok |-> convert_ok]
          ELSE /\ pc' = "located"
               /\ locator_call' = [made |-> TRUE, raised |-> FALSE,
                                   frame |-> frame,
                                   convert_ok |-> convert_ok,
                                   face |-> face, pose |-> pose,
                                   center |->
                                       detect_subjects(frame, face, pose)]
    /\ UNCHANGED <<video_info, subject_center, crop_params, replan,
                   first_call, cap, total_frames, sample_frames, i,
                   subject_centers, samples, result, trace>>
    /\ UNCHANGED <<processVars, uploadVars>>

NextLocate == Locate

SpecLocate == InitLocate /\ [][NextLocate]_vars

----------------------------------------------------------------------------
(* VideoProcessor.process_video                                            *)

\* total_height = crop_params['crop_height'] + crop_params['pad_height']
total_height(plan) == plan.crop_height + plan.pad_height

pad_yRoundedUp(plan) == (plan.pad_height + 1) \div 2

\* pad_y = crop_params['pad_height'] // 2
pad_y(plan) == plan.pad_height \div 2

\* the filter applied to the input video; the plan carries 'operation'
video_streamOf(plan) ==
    IF plan.operation \in {"crop_width", "crop_height"}
    THEN [filter |-> "crop", x |-> plan.crop_x, y |-> plan.crop_y,
          width |-> plan.crop_width, height |-> plan.crop_height]
    ELSE IF plan.operation = "add_padding"
    THEN [filter |-> "pad", width |-> plan.crop_width,
          height |-> total_height(plan), x |-> 0, y |-> pad_y(plan),
          color |-> "black"]
    ELSE [filter |-> "none"]

\* ffmpeg accepts a crop window of positive size inside the source, and a
\* pad canvas that holds the source at offset (x, y)
FilterAccepts(source, stream) ==
    IF stream.filter = "crop"
    THEN /\ stream.width >= 1 /\ stream.height >= 1
         /\ 0 <= stream.x /\ stream.x + stream.width <= source.width
         /\ 0 <= stream.y /\ stream.y + stream.height <= source.height
    ELSE IF stream.filter = "pad"
    THEN /\ 0 <= stream.x /\ stream.x + source.width <= stream.width
         /\ 0 <= stream.y /\ stream.y + source.height <= stream.height
    ELSE TRUE

\* the frame of the written file: its size and the bars around the source
\* picture (left of it, above it and below it)
Filtered(source, stream) ==
    IF stream.filter = "crop"
    THEN [width |-> stream.width, height |-> stream.height,
          left |-> 0, top |-> 0, bottom |-> 0,
          has_audio |-> source.has_audio]
    ELSE IF stream.filter = "pad"
    THEN [width |-> stream.width, height |-> stream.height,
          left |-> stream.x, top |-> stream.y,
          bottom |-> stream.height - stream.y - source.height,
          has_audio |-> source.has_audio]
    ELSE [width |-> source.width, height |-> source.height,
          left |-> 0, top |-> 0, bottom |-> 0,
          has_audio |-> source.has_audio]

----------------------------------------------------------------------------
(* Executor specification: one call of process_video                       *)

Sources ==
    [width : 1..MaxSourceDim, height : 1..MaxSourceDim, has_audio : BOOLEAN]

\* the plans handed to process_video for a source: the padding plans of the
\* planner's shape with pad_height 0..MaxPad, and the planner's plan for the
\* center of the source
ProcessPlans(source) ==
    {[AddPaddingPlan(source.width, source.height) EXCEPT !.pad_height = p] :
         p \in 0..MaxPad}
    \cup {calculate_crop_parameters(source,
              <<source.width \div 2, source.height \div 2>>)}

InitProcess ==
    /\ pc = "process"
    /\ video_info = None
    /\ subject_center = None
    /\ crop_params = None
    /\ replan = None
    /\ first_call = NoCall
    /\ AnalysisIdle
    /\ ProcessIdle
    /\ UploadIdle

\* get_video_info returns None: return False
ProcessProbeFails ==
    /\ pc = "process"
    /\ \E source \in Sources :
          crop_params' \in ProcessPlans(source)
    /\ result' = "False"
    /\ pc' = "processed"
    /\ UNCHANGED <<video_info, subject_center, replan, first_call, cap,
                   total_frames, sample_frames, i, subject_centers, samples,
                   locator_call, trace, processVars, uploadVars>>

\* crop_params['operation'] of a plan without that key raises KeyError,
\* which 'except Exception' turns into return False
ProcessPlanWithoutOperation ==
    /\ pc = "process"
    /\ \E source \in Sources :
          \E plan \in ProcessPlans(source) :
             /\ "operation" \notin DOMAIN plan
             /\ video_info' = source
             /\ crop_params' = plan
    /\ result' = "False"
    /\ pc' = "processed"
    /\ UNCHANGED <<subject_center, replan, first_call, cap, total_frames,
                   sample_frames, i, subject_centers, samples, locator_call,
                   trace, processVars, uploadVars>>

\* the filter is built and ffmpeg.run writes the output: return True
ProcessRuns ==
    /\ pc = "process"
    /\ \E source \in Sources :
          \E plan \in ProcessPlans(source) :
             /\ "operation" \in DOMAIN plan
             /\ FilterAccepts(source, video_streamOf(plan))
             /\ video_info' = source
             /\ crop_params' = plan
             /\ video_stream' = video_streamOf(plan)
             /\ output' = Filtered(source, video_streamOf(plan))
    /\ result' = "True"
    /\ pc' = "processed"
    /\ UNCHANGED <<subject_center, replan, first_call, cap, total_frames,
                   sample_frames, i, subject_centers, samples, locator_call,
                   trace, uploadVars>>

\* the filter is built and ffmpeg.run raises ffmpeg.Error (a filter it
\* rejects, or any failure of the encoder): return False
ProcessFFmpegError ==
    /\ pc = "process"
    /\ \E source \in Sources :
          \E plan \in ProcessPlans(source) :
             /\ "operation" \in DOMAIN plan
             /\ video_info' = source
             /\ crop_params' = plan
             /\ video_stream' = video_streamOf(plan)
    /\ result' = "False"
    /\ pc' = "processed"
    /\ UNCHANGED <<subject_center, replan, first_call, cap, total_frames,
                   sample_frames, i, subject_centers, samples, locator_call,
                   trace, output, uploadVars>>

NextProcess ==
    \/ ProcessProbeFails
    \/ ProcessPlanWithoutOperation
    \/ ProcessRuns
    \/ ProcessFFmpegError

SpecProcess == InitProcess /\ [][NextProcess]_vars

----------------------------------------------------------------------------
(* app.py: the upload queue                                                *)

\* upload_paused = False at import, and no statement assigns it again
upload_paused == FALSE

\* the videos a request can name: two files on disk and one whose path
\* does not exist
Videos ==
    {[filename |-> "a.mp4", exists |-> TRUE],
     [filename |-> "b.mp4", exists |-> TRUE],
     [filename |-> "gone.mp4", exists |-> FALSE]}

\* data['videos'] of a request that passes the checks
Batches == UNION {[1..n -> Videos] : n \in 1..MaxBatch}

PathExists(video) == video.exists

\* the jobs schedule_upload appends: a uuid4 is drawn for every video of the
\* request, and the videos whose path does not exist are skipped
NewJobs(videos, drawn) ==
    LET numbered == [k \in 1..Len(videos) |->
                        [id |-> drawn + k, filename |-> videos[k].filename,
                         exists |-> videos[k].exists]]
        kept == SelectSeq(numbered, PathExists)
    IN  [k \in 1..Len(kept) |->
            [id |-> kept[k].id, filename |-> kept[k].filename]]

\* upload_status[video_id] = {..., 'status': 'queued', ...} for every job
NewStatus(jobs) ==
    [id \in {jobs[k].id : k \in 1..Len(jobs)} |-> "queued"]

\* the invocations of process_upload_queue that have read upload_queue[0]
\* and have neither popped the queue nor ended
Running == {n \in 1..Len(workers) : workers[n].pc \in {"uploading", "finished"}}

InitUpload ==
    /\ pc = "idle"
    /\ video_info = None
    /\ subject_center = None
    /\ crop_params = None
    /\ replan = None
    /\ first_call = NoCall
    /\ AnalysisIdle
    /\ ProcessIdle
    /\ UploadIdle

\* schedule_upload answers with an error before it touches the queue: no
\* data, no videos, YouTube not connected or not available
schedule_uploadRejected ==
    /\ requests < MaxRequests
    /\ requests' = requests + 1
    /\ response' = "rejected"
    /\ UNCHANGED <<planVars, first_call, analyzeVars, processVars, scan,
                   upload_queue, upload_status, history, timers, workers,
                   issued>>

\* schedule_upload replaces the queue and the status map by those of the
\* request and, unless no video was queued, starts a timer for
\* process_upload_queue
schedule_upload ==
    /\ requests < MaxRequests
    /\ requests' = requests + 1
    /\ \E videos \in Batches :
          LET jobs == NewJobs(videos, issued)
          IN  /\ upload_queue' = jobs
              /\ upload_status' = NewStatus(jobs)
              /\ issued' = issued + Len(videos)
              /\ IF Len(jobs) = 0
                 THEN response' = "no valid videos" /\ timers' = timers
                 ELSE response' = "started" /\ timers' = timers + 1
    /\ UNCHANGED <<planVars, first_call, analyzeVars, processVars, scan, history,
                   workers>>

\* a timer fires and process_upload_queue finds nothing to do: return
TimerFiresIdle ==
    /\ timers > 0
    /\ upload_paused \/ upload_queue = <<>>
    /\ timers' = timers - 1
    /\ UNCHANGED <<planVars, first_call, analyzeVars, processVars, scan,
                   upload_queue, upload_status, history, workers, issued,
                   requests, response>>

\* a timer fires: process_upload_queue reads upload_queue[0], sets its
\* status to 'uploading' and starts the upload
TimerFires ==
    /\ timers > 0
    /\ ~(upload_paused \/ upload_queue = <<>>)
    /\ timers' = timers - 1
    /\ LET current_upload == upload_queue[1]
       IN  /\ workers' = Append(workers, [pc |-> "uploading",
                                          job |-> current_upload])
           /\ upload_status' =
                  [upload_status EXCEPT ![current_upload.id] = "uploading"]
    /\ UNCHANGED <<planVars, first_call, analyzeVars, processVars, scan,
                   upload_queue, history, issued, requests, response>>

\* upload_video_to_youtube returns (success, result): the status of the job
\* becomes 'completed' or 'failed' and an entry is appended to the history
UploadReturns ==
    /\ \E n \in 1..Len(workers), success \in BOOLEAN :
          LET job == workers[n].job
              status == IF success THEN "completed" ELSE "failed"
          IN  /\ workers[n].pc = "uploading"
              /\ job.id \in DOMAIN upload_status
              /\ upload_status' = [upload_status EXCEPT ![job.id] = status]
              /\ history' = Append(history,
                                   [id |-> job.id, filename |-> job.filename,
                                    status |-> status])
              /\ workers' = [workers EXCEPT ![n].pc = "finished"]
    /\ UNCHANGED <<planVars, first_call, analyzeVars, processVars, scan,
                   upload_queue, timers, issued, requests, response>>

\* the upload returns after schedule_upload replaced the status map:
\* upload_status[video_id] raises KeyError in the try block and again in the
\* except block, and the thread ends without a pop and without a timer
StatusLost ==
    /\ \E n \in 1..Len(workers) :
          /\ workers[n].pc = "uploading"
          /\ workers[n].job.id \notin DOMAIN upload_status
          /\ workers' = [workers EXCEPT ![n].pc = "died"]
    /\ UNCHANGED <<planVars, first_call, analyzeVars, processVars, scan,
                   upload_queue, upload_status, history, timers, issued,
                   requests, response>>

\* upload_queue.pop(0), and a timer for the next job if one is left
PopAndContinue ==
    /\ \E n \in 1..Len(workers) :
          /\ workers[n].pc = "finished"
          /\ upload_queue # <<>>
          /\ upload_queue' = Tail(upload_queue)
          /\ timers' = IF upload_queue' # <<>> /\ ~upload_paused
                       THEN timers + 1
                       ELSE timers
          /\ workers' = [workers EXCEPT ![n].pc = "returned"]
    /\ UNCHANGED <<planVars, first_call, analyzeVars, processVars, scan,
                   upload_status, history, issued, requests, response>>

\* upload_queue.pop(0) on the empty list raises IndexError: the thread ends
PopFromEmpty ==
    /\ \E n \in 1..Len(workers) :
          /\ workers[n].pc = "finished"
          /\ upload_queue = <<>>
          /\ workers' = [workers EXCEPT ![n].pc = "died"]
    /\ UNCHANGED <<planVars, first_call, analyzeVars, processVars, scan,
                   upload_queue, upload_status, history, timers, issued,
                   requests, response>>

\* file_size < 1024 is 'File too small'
MinFileSize == 1024

video_extensions == {".mp4", ".mov", ".avi", ".wmv", ".flv", ".webm", ".mkv"}

\* the extension filename.lower() ends with
Extension(filename) ==
    CASE filename \in {"a.mp4", "b.mp4", "gone.mp4"} -> ".mp4"
      [] filename = "notes.txt" -> ".txt"

\* what scan_folder finds out about a file: get_video_info returns None
\* (ratio_ok FALSE, readable FALSE) or an aspect ratio within or outside the
\* 0.01 tolerance, and os.path.getsize
FileAttrs ==
    {[readable |-> TRUE, ratio_ok |-> TRUE, size |-> 2 * MinFileSize],
     [readable |-> TRUE, ratio_ok |-> TRUE, size |-> 0],
     [readable |-> TRUE, ratio_ok |-> TRUE, size |-> MinFileSize - 1],
     [readable |-> TRUE, ratio_ok |-> FALSE, size |-> 2 * MinFileSize],
     [readable |-> FALSE, ratio_ok |-> FALSE, size |-> 2 * MinFileSize]}

\* os.listdir(folder_path): notes.txt alone or with one of a.mp4, b.mp4
\* (the entry of a file does not depend on the other files of the folder)
Listings ==
    {[f \in {"notes.txt"} |-> [readable |-> FALSE, ratio_ok |-> FALSE,
                               size |-> 0]]}
    \cup {[f \in {"notes.txt", name} |->
               IF f = name
               THEN attrs
               ELSE [readable |-> FALSE, ratio_ok |-> FALSE, size |-> 0]] :
              name \in {"a.mp4", "b.mp4"}, attrs \in FileAttrs}

\* uploaded_files / failed_files: the filenames with an entry of the status
FilesWithStatus(entries, status) ==
    {entries[k].filename :
        k \in {j \in 1..Len(entries) : entries[j].status = status}}

\* the entry of videos for one file
ScanEntry(filename, attrs, entries) ==
    LET is_duplicate == filename \in FilesWithStatus(entries, "completed")
        is_failed == filename \in FilesWithStatus(entries, "failed")
        aspect_ratio_ok == attrs.readable /\ attrs.ratio_ok
        needs_cropping == attrs.readable /\ ~aspect_ratio_ok
    IN  IF is_duplicate
        THEN [valid |-> FALSE, status_type |-> "duplicate",
              needs_cropping |-> needs_cropping]
        ELSE IF is_failed
        THEN [valid |-> TRUE, status_type |-> "retry",
              needs_cropping |-> needs_cropping]
        ELSE IF ~aspect_ratio_ok
        THEN [valid |-> FALSE, status_type |-> "wrong_ar",
              needs_cropping |-> needs_cropping]
        ELSE IF attrs.size = 0 \/ attrs.size < MinFileSize
        THEN [valid |-> FALSE, status_type |-> "invalid",
              needs_cropping |-> needs_cropping]
        ELSE [valid |-> TRUE, status_type |-> "new",
              needs_cropping |-> needs_cropping]

\* scan_folder on an existing directory: load the history and report every
\* file with a video extension
scan_folder ==
    /\ \E files \in Listings :
          LET loaded == history
              listed == {f \in DOMAIN files :
                            Extension(f) \in video_extensions}
          IN  scan' = [history |-> loaded, files |-> files,
                       videos |-> [f \in listed |->
                                      ScanEntry(f, files[f], loaded)]]
    /\ UNCHANGED <<planVars, first_call, analyzeVars, processVars,
                   upload_queue, upload_status, history, timers, workers,
                   issued, requests, response>>

NextUpload ==
    \/ schedule_uploadRejected
    \/ schedule_upload
    \/ TimerFiresIdle
    \/ TimerFires
    \/ UploadReturns
    \/ StatusLost
    \/ PopAndContinue
    \/ PopFromEmpty
    \/ scan_folder

SpecUpload == InitUpload /\ [][NextUpload]_vars

----------------------------------------------------------------------------
(* Vocabulary of the properties, stated on the exact ratio width/height *)

\* |w/h - 9/16| < 0.01
WithinTolerance(w, h) == 100 * Abs(16 * w - 9 * h) < 16 * h

\* w/h > 9/16
WiderThanTarget(w, h) == 16 * w > 9 * h

\* w/h < 9/16
NarrowerThanTarget(w, h) == 16 * w < 9 * h

\* a planner call has returned
Called == pc \in {"planned", "replanned"}

W == video_info.width

H == video_info.height

----------------------------------------------------------------------------
(* C1 *)

\* C1: whenever |w/h - 9/16| < 0.01 the planner returns the no-op plan
\* (needs_crop false, rectangle 0,0,w,h, no operation), whatever the subject
\* center; 1080x1920 is such a video.
C1_NoOpWithinTolerance ==
    (Called /\ WithinTolerance(W, H)) =>
        /\ crop_params.needs_crop = FALSE
        /\ Operation(crop_params) = "none"
        /\ crop_params.crop_x = 0
        /\ crop_params.crop_y = 0
        /\ crop_params.crop_width = W
        /\ crop_params.crop_height = H

C1_Witness ==
    /\ Called
    /\ W = 1080 /\ H = 1920
    /\ subject_center = <<-1, 1920 + SubjectMargin>>
    /\ crop_params = [needs_crop |-> FALSE, crop_x |-> 0, crop_y |-> 0,
                      crop_width |-> 1080, crop_height |-> 1920]

----------------------------------------------------------------------------
(* C2 *)

\* C2 as stated: for every w/h > 9/16 the returned rectangle has 0 <= crop_x,
\* crop_x + target_width <= w, crop_y = 0, crop_height = h and width
\* floor(h*9/16).
C2_Original ==
    (Called /\ WiderThanTarget(W, H)) =>
        /\ 0 <= crop_params.crop_x
        /\ crop_params.crop_x + (9 * H) \div 16 <= W
        /\ crop_params.crop_y = 0
        /\ crop_params.crop_height = H
        /\ crop_params.crop_width = (9 * H) \div 16

\* C2 amended: for every w/h > 9/16 that is outside the tolerance band
\* (w/h - 9/16 >= 0.01) the plan is crop_width with 0 <= crop_x,
\* crop_x + target_width <= w, crop_y = 0, crop_height = h and width
\* floor(h*9/16).
C2_Amended ==
    (Called /\ WiderThanTarget(W, H) /\ ~WithinTolerance(W, H)) =>
        /\ Operation(crop_params) = "crop_width"
        /\ 0 <= crop_params.crop_x
        /\ crop_params.crop_x + (9 * H) \div 16 <= W
        /\ crop_params.crop_y = 0
        /\ crop_params.crop_height = H
        /\ crop_params.crop_width = (9 * H) \div 16

C2_Witness ==
    /\ Called
    /\ W = 1920 /\ H = 1080
    /\ subject_center[1] = 960
    /\ Operation(crop_params) = "crop_width"
    /\ crop_params.crop_width = 607
    /\ crop_params.crop_x = 657

----------------------------------------------------------------------------
(* C3 *)

\* C3 as stated: for every w/h < 9/16 with floor(w*16/9) <= h the plan is
\* crop_height with crop_x = 0, crop_width = w, crop_height = floor(w*16/9),
\* 0 <= crop_y and crop_y + crop_height <= h.
C3_Original ==
    (Called /\ NarrowerThanTarget(W, H) /\ (16 * W) \div 9 <= H) =>
        /\ Operation(crop_params) = "crop_height"
        /\ crop_params.crop_x = 0
        /\ crop_params.crop_width = W
        /\ crop_params.crop_height = (16 * W) \div 9
        /\ 0 <= crop_params.crop_y
        /\ crop_params.crop_y + crop_params.crop_height <= H

\* C3 amended: the same for every w/h < 9/16 that is outside the tolerance
\* band (9/16 - w/h >= 0.01).
C3_Amended ==
    (Called /\ NarrowerThanTarget(W, H) /\ (16 * W) \div 9 <= H
            /\ ~WithinTolerance(W, H)) =>
        /\ Operation(crop_params) = "crop_height"
        /\ crop_params.crop_x = 0
        /\ crop_params.crop_width = W
        /\ crop_params.crop_height = (16 * W) \div 9
        /\ 0 <= crop_params.crop_y
        /\ crop_params.crop_y + crop_params.crop_height <= H

C3_Witness ==
    /\ Called
    /\ W = 45 /\ H = 96
    /\ subject_center[2] = 48
    /\ Operation(crop_params) = "crop_height"
    /\ crop_params.crop_height = 80
    /\ crop_params.crop_y = 8

----------------------------------------------------------------------------
(* C4, C5 *)

\* The add_padding branch is never taken: it needs a video that is not wider
\* than 9/16 (16*w <= 9*h) with floor(16*w/9) > h.
PaddingNeverPlanned == Called => Operation(crop_params) # "add_padding"

\* C5 as stated: a square source with the subject at the frame center gets
\* an add_padding plan with pad amount floor(w*16/9) - h that keeps the full
\* source width and height.
C5_SquareIsPadded ==
    (Called /\ W = H /\ subject_center = <<W \div 2, H \div 2>>) =>
        /\ Operation(crop_params) = "add_padding"
        /\ crop_params.pad_height = (16 * W) \div 9 - H
        /\ crop_params.crop_width = W
        /\ crop_params.crop_height = H

----------------------------------------------------------------------------
(* C6 *)

\* the output frame of the returned plan
Out == OutputInfo(crop_params)

\* the output frame has a ratio within 0.01 of 9/16 and planning it again
\* gives the no-op plan
OutputConforms ==
    /\ Out.height > 0
    /\ WithinTolerance(Out.width, Out.height)
    /\ pc = "replanned" => Operation(replan) = "none"

\* C6 as stated: for every positive w, h and every subject center the output
\* dimensions of the plan have a ratio within 0.01 of 9/16, and planning
\* them again yields the no-op plan.
C6_Original == Called => OutputConforms

\* C6 amended: the output dimensions have a ratio within 0.01 of 9/16, and
\* planning them again yields the no-op plan, for every plan that is none,
\* crop_width on a source of height >= 88 or crop_height on a source of
\* width >= 24 (on smaller frames the truncation of the target size to whole
\* pixels moves the ratio by 0.01 or more).
C6_Amended ==
    (/\ Called
     /\ \/ Operation(crop_params) = "none"
        \/ Operation(crop_params) = "crop_width" /\ H >= 88
        \/ Operation(crop_params) = "crop_height" /\ W >= 24)
        => OutputConforms

C6_Witness ==
    /\ pc = "replanned"
    /\ W = 1920 /\ H = 1080
    /\ Operation(crop_params) = "crop_width"
    /\ Out = [width |-> 607, height |-> 1080]
    /\ replan = [needs_crop |-> FALSE, crop_x |-> 0, crop_y |-> 0,
                 crop_width |-> 607, crop_height |-> 1080]

\* the thresholds of C6_Amended are tight: one pixel less and truncation
\* breaks the output ratio
C6_ThresholdsTight ==
    /\ ~WithinTolerance((9 * 87) \div 16, 87)
    /\ ~WithinTolerance(23, (16 * 23) \div 9)

----------------------------------------------------------------------------
(* C7 *)

\* C7: for every positive w, h and every integer subject center, inside the
\* frame, on its edges or outside of it, the returned rectangle lies inside
\* the source frame: 0 <= crop_x, crop_x + crop_width <= w, 0 <= crop_y,
\* crop_y + crop_height <= h.
C7_RectangleInBounds ==
    Called =>
        /\ 0 <= crop_params.crop_x
        /\ crop_params.crop_x + crop_params.crop_width <= W
        /\ 0 <= crop_params.crop_y
        /\ crop_params.crop_y + crop_params.crop_height <= H

\* a subject left of the frame is clamped to the left edge
C7_Witness ==
    /\ Called
    /\ Operation(crop_params) = "crop_width"
    /\ subject_center[1] < 0
    /\ crop_params.crop_x = 0
    /\ crop_params.crop_width > 0
    /\ crop_params.crop_width < W

\* a subject beyond the far edge is clamped to the far edge
C7_FarEdgeReached ==
    /\ Called
    /\ Operation(crop_params) = "crop_height"
    /\ subject_center[2] > H
    /\ crop_params.crop_y = H - crop_params.crop_height
    /\ crop_params.crop_y > 0

----------------------------------------------------------------------------
(* C8 *)

Operations == {"none", "crop_width", "crop_height", "add_padding"}

\* the fields every plan carries, and the fields of each operation
PlanIsWellFormed(plan) ==
    /\ {"needs_crop", "crop_x", "crop_y", "crop_width", "crop_height"}
           \subseteq DOMAIN plan
    /\ Operation(plan) \in Operations
    /\ plan.needs_crop = (Operation(plan) # "none")
    /\ ("pad_height" \in DOMAIN plan) = (Operation(plan) = "add_padding")

----------------------------------------------------------------------------
(* C9 *)

IsDecoded(sample) == sample.ret

\* the samples whose frame was decoded, in sampling order
Decoded == SelectSeq(samples, IsDecoded)

RECURSIVE SumOfCenters(_, _)
SumOfCenters(decoded, k) ==
    IF decoded = <<>>
    THEN 0
    ELSE Head(decoded).center[k] + SumOfCenters(Tail(decoded), k)

\* a quotient rounded toward zero
Truncated(sum, n) == IF sum >= 0 THEN sum \div n ELSE -((-sum) \div n)

\* the truncated unweighted mean of the decoded samples' centers, or the
\* center of the probed frame when there is none
ExpectedCenter ==
    IF Decoded = <<>>
    THEN <<video_info.width \div 2, video_info.height \div 2>>
    ELSE <<Truncated(SumOfCenters(Decoded, 1), Len(Decoded)),
           Truncated(SumOfCenters(Decoded, 2), Len(Decoded))>>

\* C9: whatever samples fail to decode, the subject center handed to the
\* planner is the truncated unweighted mean of the centers of exactly the
\* decoded samples; when no sample decodes (also with 0 frames) it is
\* (w//2, h//2); and once the sampling loop has ended the call returns a
\* plan, never an error.
C9_DecodeFailureAbsorbed ==
    /\ result = "plan" =>
          /\ subject_center = ExpectedCenter
          /\ crop_params =
                calculate_crop_parameters(video_info, ExpectedCenter)
    /\ (pc = "done" /\ cap = "released") =>
          /\ result = "plan"
          /\ PlanIsWellFormed(crop_params)

\* some samples fail, the others give different centers
C9_Witness ==
    /\ result = "plan"
    /\ Len(samples) = MaxSamples
    /\ Len(Decoded) = 3
    /\ ~samples[1].ret
    /\ ~samples[4].ret
    /\ samples[2].center # samples[3].center
    /\ subject_center = ExpectedCenter
    /\ subject_center # samples[2].center
    /\ subject_center # <<video_info.width \div 2, video_info.height \div 2>>

\* every sample fails: the plan is made for the center of the frame
C9_AllFailReached ==
    /\ result = "plan"
    /\ Len(samples) = MaxSamples
    /\ Decoded = <<>>
    /\ subject_center = <<video_info.width \div 2, video_info.height \div 2>>
    /\ crop_params.needs_crop

\* a video that reports no frames: the plan is made for the center
C9_NoFramesReached ==
    /\ result = "plan"
    /\ total_frames = 0
    /\ samples = <<>>
    /\ subject_center = <<video_info.width \div 2, video_info.height \div 2>>

----------------------------------------------------------------------------
(* C10 *)

\* sample_count = min(5, total_frame_count)
SampleCount == IF total_frames < 5 THEN total_frames ELSE 5

\* C10: the sampled indices are floor(i * total / sample_count) for
\* i = 0..sample_count-1: at most 5, each in [0, total), strictly
\* increasing, and for total < 5 exactly 0..total-1.
C10_FrameSampling ==
    cap \in {"open", "released"} =>
        /\ Len(samples) <= 5
        /\ \A k \in 1..Len(samples) :
              /\ samples[k].frame_num
                     = ((k - 1) * total_frames) \div SampleCount
              /\ 0 <= samples[k].frame_num
              /\ samples[k].frame_num < total_frames
        /\ \A j, k \in 1..Len(samples) :
              j < k => samples[j].frame_num < samples[k].frame_num
        /\ cap = "released" =>
              /\ Len(samples) = (IF SampleCount > 0 THEN SampleCount ELSE 0)
              /\ total_frames < 5 =>
                    \A k \in 1..Len(samples) : samples[k].frame_num = k - 1

\* 7 frames: the indices 0, 1, 2, 4, 5 are sampled
C10_Witness ==
    /\ cap = "released"
    /\ total_frames = 7
    /\ [k \in 1..Len(samples) |-> samples[k].frame_num] = <<0, 1, 2, 4, 5>>

\* 3 frames: every frame is sampled once
C10_ShortVideoReached ==
    /\ cap = "released"
    /\ total_frames = 3
    /\ [k \in 1..Len(samples) |-> samples[k].frame_num] = <<0, 1, 2>>

----------------------------------------------------------------------------
(* C11 *)

\* get_video_info returned the metadata of the video
ProbeSucceeded == "width" \in DOMAIN video_info

\* C11 as stated: once the probe has succeeded the analysis never ends in an
\* error; it returns 'no processing needed' or a plan.
C11_NoErrorAfterProbe ==
    (pc = "done" /\ ProbeSucceeded) => result \in {"not_needed", "plan"}

----------------------------------------------------------------------------
(* C12 *)

\* no decoded sample had a detection
NothingDetected ==
    \A k \in 1..Len(samples) : samples[k].ret => samples[k].detections = 0

\* C12: when every decoded sample yields zero detections from both
\* detectors, the aggregate subject center is (w//2, h//2) of the probed
\* frame and the call returns the plan of calculate_crop_parameters for
\* that center.
C12_NoSubjectIsCenterPlan ==
    (pc = "done" /\ cap = "released" /\ NothingDetected) =>
        /\ result = "plan"
        /\ subject_center
               = <<video_info.width \div 2, video_info.height \div 2>>
        /\ crop_params =
               calculate_crop_parameters(
                   video_info,
                   <<video_info.width \div 2, video_info.height \div 2>>)

\* five decoded frames without a detection, the last one with both
\* detectors finding nothing
C12_Witness ==
    /\ result = "plan"
    /\ Len(samples) = MaxSamples
    /\ \A k \in 1..Len(samples) : samples[k].ret /\ samples[k].detections = 0
    /\ ~locator_call.face.error
    /\ ~locator_call.pose.error
    /\ video_info = [width |-> 16, height |-> 9]
    /\ subject_center = <<8, 4>>
    /\ Operation(crop_params) = "crop_width"

----------------------------------------------------------------------------
(* Vocabulary of the locator properties *)

\* a detect_subjects call whose cv2.cvtColor succeeded
LocatorRan == locator_call.made /\ "convert_ok" \in DOMAIN locator_call
                  /\ locator_call.convert_ok

\* a detect_subjects call that returned
Located == locator_call.made /\ ~locator_call.raised

\* the pixel points of the detections the face detector delivered: each
\* relative centre times the frame size, truncated
FacePixelPoints(call) ==
    IF call.face.error
    THEN <<>>
    ELSE [k \in 1..Len(call.face.detections) |->
             <<Truncated(call.face.detections[k][1] * call.frame.width,
                         NormDen),
               Truncated(call.face.detections[k][2] * call.frame.height,
                         NormDen)>>]

\* the pixel point of the pose: the mean of the four landmarks times the
\* frame size, truncated
PosePixelPoints(call) ==
    IF call.pose.error \/ ~call.pose.found
    THEN <<>>
    ELSE LET l == call.pose.landmarks
         IN  << <<Truncated((l[1][1] + l[2][1] + l[3][1] + l[4][1])
                                * call.frame.width, 4 * NormDen),
                  Truncated((l[1][2] + l[2][2] + l[3][2] + l[4][2])
                                * call.frame.height, 4 * NormDen)>> >>

PixelPoints(call) == FacePixelPoints(call) \o PosePixelPoints(call)

RECURSIVE SumOfPoints(_, _)
SumOfPoints(points, k) ==
    IF points = <<>> THEN 0 ELSE Head(points)[k] + SumOfPoints(Tail(points), k)

FrameCenter(frame) == <<frame.width \div 2, frame.height \div 2>>

\* the truncated unweighted mean of the points, or the frame center
MeanOrCenter(points, frame) ==
    IF points = <<>>
    THEN FrameCenter(frame)
    ELSE <<Truncated(SumOfPoints(points, 1), Len(points)),
           Truncated(SumOfPoints(points, 2), Len(points))>>

\* a detector that raised, taken as a detector that found nothing
FoundNothing(outcome) ==
    IF outcome.error
    THEN [outcome EXCEPT !.error = FALSE]
    ELSE outcome

----------------------------------------------------------------------------
(* C13 *)

\* C13: whatever the two detectors do (detections, nothing, exception),
\* detect_subjects returns a point; a detector that raises counts as a
\* detector that finds nothing, the detections of the other one are still
\* used, and when both fail or find nothing the point is the frame center.
C13_DetectorFailuresAbsorbed ==
    LocatorRan =>
        /\ ~locator_call.raised
        /\ locator_call.center \in Int \X Int
        /\ locator_call.center =
               detect_subjects(locator_call.frame,
                               FoundNothing(locator_call.face),
                               FoundNothing(locator_call.pose))
        /\ (locator_call.face.error \/ locator_call.pose.error) =>
               locator_call.center =
                   MeanOrCenter(PixelPoints(locator_call), locator_call.frame)
        /\ Delivered(locator_call.face, locator_call.pose) = 0 =>
               locator_call.center = FrameCenter(locator_call.frame)

\* the face detector raises and the torso found by the pose detector is
\* returned
C13_Witness ==
    /\ Located
    /\ locator_call.face.error
    /\ locator_call.pose.found
    /\ locator_call.frame = [width |-> 16, height |-> 9]
    /\ locator_call.pose.landmarks
           = << <<2, 1>>, <<NormDen, 1>>, <<2, 3>>, <<NormDen, 3>> >>
    /\ locator_call.center = PosePixelPoints(locator_call)[1]
    /\ locator_call.center # FrameCenter(locator_call.frame)

\* the pose detector raises and the faces are still used
C13_PoseFailureReached ==
    /\ Located
    /\ locator_call.pose.error
    /\ Len(locator_call.face.detections) = 2
    /\ locator_call.center # FrameCenter(locator_call.frame)

\* both detectors raise: the frame center is returned
C13_BothFailReached ==
    /\ Located
    /\ locator_call.face.error
    /\ locator_call.pose.error
    /\ locator_call.center = FrameCenter(locator_call.frame)

----------------------------------------------------------------------------
(* C17 *)

\* C17: the returned point is, per coordinate, the truncated unweighted
\* mean of the pixel points of all detections of both detectors (one point
\* per face, at most one for the pose, all weighted equally); each
\* coordinate lies between the smallest and the largest contributing value;
\* without detections the point is (width//2, height//2).
C17_PerFrameReduction ==
    Located =>
        LET points == PixelPoints(locator_call)
        IN  /\ Len(points) = Delivered(locator_call.face, locator_call.pose)
            /\ locator_call.center = MeanOrCenter(points, locator_call.frame)
            /\ points # <<>> =>
                  \A k \in 1..2 :
                     /\ \E n \in 1..Len(points) :
                           points[n][k] <= locator_call.center[k]
                     /\ \E n \in 1..Len(points) :
                           points[n][k] >= locator_call.center[k]
            /\ points = <<>> =>
                  locator_call.center = FrameCenter(locator_call.frame)

\* two faces and a torso at three different points
C17_Witness ==
    /\ Located
    /\ Len(FacePixelPoints(locator_call)) = 2
    /\ Len(PosePixelPoints(locator_call)) = 1
    /\ LET points == PixelPoints(locator_call)
       IN  /\ points[1] # points[2]
           /\ points[2] # points[3]
           /\ points[1] # points[3]
           /\ \A n \in 1..3 : points[n] # locator_call.center
           /\ \E n \in 1..3 : points[n][1] < 0

----------------------------------------------------------------------------
(* C14 *)

SubjectInsideFrame ==
    /\ 0 <= subject_center[1] /\ subject_center[1] < W
    /\ 0 <= subject_center[2] /\ subject_center[2] < H

\* a window of the given size on an axis of the given length: at
\* subject - size // 2 when that fits, else at the nearest edge, and the
\* subject inside [start, start + size)
PlacedOnSubject(start, size, subject, length) ==
    LET ideal == subject - size \div 2
    IN  /\ (0 <= ideal /\ ideal + size <= length) => start = ideal
        /\ ideal < 0 => start = 0
        /\ ideal + size > length => start = length - size
        /\ start <= subject
        /\ subject < start + size

\* C14: for a crop plan and a subject inside the frame, the crop window
\* starts at subject - target_size // 2 on the cropped axis when that window
\* fits in the frame, else at the nearest edge, and in both cases the
\* subject coordinate lies inside [crop_start, crop_start + target_size).
C14_SubjectCentering ==
    (Called /\ SubjectInsideFrame) =>
        /\ Operation(crop_params) = "crop_width" =>
               PlacedOnSubject(crop_params.crop_x, crop_params.crop_width,
                               subject_center[1], W)
        /\ Operation(crop_params) = "crop_height" =>
               PlacedOnSubject(crop_params.crop_y, crop_params.crop_height,
                               subject_center[2], H)

\* the same statement for the plans whose window is not empty
C14_HoldsForNonEmptyWindow ==
    (Called /\ crop_params.crop_width >= 1 /\ crop_params.crop_height >= 1)
        => C14_SubjectCentering

\* the scenario of the claim: 1920x1080 with the subject at (960, 540)
C14_ScenarioReached ==
    /\ Called
    /\ W = 1920 /\ H = 1080
    /\ subject_center = <<960, 540>>
    /\ Operation(crop_params) = "crop_width"
    /\ crop_params.crop_width = 607
    /\ crop_params.crop_x = 657

----------------------------------------------------------------------------
(* C15 *)

\* the call of analyze_video_for_cropping has ended, by a return or by an
\* exception
CallEnded == pc = "done"

\* C15: once the capture has been acquired it is released on every exit
\* path of analyze_video_for_cropping (normal completion, the could-not-open
\* return, total sample failure, an exception while a sampled frame is
\* handed to the locator): no call ends with the handle still held.
C15_HandleReleased == CallEnded => cap # "open"

\* the paths on which cap.release() of line 222 is reached
C15_ReleasedWhenSamplingCompletes ==
    (CallEnded /\ result = "plan") => cap = "released"

C15_TotalSampleFailureReached ==
    /\ CallEnded
    /\ cap = "released"
    /\ sample_frames > 0
    /\ Decoded = <<>>

----------------------------------------------------------------------------
(* C16 *)

\* the positions of an event in the trace of the call
Positions(event) == {k \in 1..Len(trace) : trace[k] = event}

\* the events of the sampling loop: one decode per sample, followed by one
\* locator call exactly when the frame was decoded
RECURSIVE SamplingEvents(_)
SamplingEvents(taken) ==
    IF taken = <<>>
    THEN <<>>
    ELSE (IF Head(taken).ret THEN <<"decode", "locate">> ELSE <<"decode">>)
             \o SamplingEvents(Tail(taken))

\* the probed video differs from 9/16 by at least 0.01
Mismatch == ProbeSucceeded /\ ~WithinTolerance(W, H)

\* the probe comes first; frames are decoded and the locator is called only
\* for a mismatching video; the locator is called once per decoded sample
\* and never for a failed one; the planner is called at most once, and only
\* after the release that ends the sampling of all sample_frames frames
OrderingOfEvents ==
    /\ trace # <<>> => trace[1] = "probe"
    /\ (Positions("decode") \cup Positions("locate")) # {} => Mismatch
    /\ (ProbeSucceeded /\ WithinTolerance(W, H)) =>
           trace = <<"probe">> /\ samples = <<>> /\ ~locator_call.made
    /\ Len(trace) >= 2 =>
           /\ trace[2] = "open"
           /\ \E rest \in {<<>>, <<"release">>, <<"release", "plan">>} :
                 SubSeq(trace, 3, Len(trace)) = SamplingEvents(samples) \o rest
    /\ Cardinality(Positions("locate")) = Len(Decoded)
    /\ Cardinality(Positions("decode")) = Len(samples)
    /\ Positions("release") # {} => Len(samples) = Max(sample_frames, 0)
    /\ Cardinality(Positions("plan")) <= 1

\* C16: the probe happens before any decode; frames are decoded and the
\* locator is invoked only if the probed ratio differs from 9/16 by at least
\* 0.01; the locator is invoked exactly once per decoded sample and never
\* for a failed one; the planner is invoked exactly once, after all sampling
\* has finished (stated for the calls on a mismatching video, the only ones
\* that sample).
C16_PipelineOrdering ==
    /\ OrderingOfEvents
    /\ (CallEnded /\ Mismatch) =>
           /\ Cardinality(Positions("plan")) = 1
           /\ trace[Len(trace)] = "plan"
           /\ trace[Len(trace) - 1] = "release"

\* what holds of every call: the ordering, and one planner call after the
\* release in the calls whose sampling ran to its end
C16_HoldsWhenSamplingCompletes ==
    /\ OrderingOfEvents
    /\ (CallEnded /\ cap = "released") =>
           /\ Cardinality(Positions("plan")) = 1
           /\ trace[Len(trace)] = "plan"
           /\ trace[Len(trace) - 1] = "release"

\* a call with a failed and a decoded sample that reaches the planner
C16_MixedSamplesReached ==
    /\ CallEnded
    /\ result = "plan"
    /\ trace = <<"probe", "open", "decode", "decode", "locate", "release",
                 "plan">>

----------------------------------------------------------------------------
(* C18 *)

\* process_video returned True for a padding plan
Padded ==
    /\ pc = "processed"
    /\ result = "True"
    /\ Operation(crop_params) = "add_padding"

\* C18: for an add_padding plan with pad amount p >= 0 on a source of
\* width w and height h, the written frame is w wide and h + p high with the
\* source at vertical offset p // 2: the top bar has p // 2 rows, the bottom
\* bar p - p // 2 rows, the bars differ by at most one row and the extra row
\* of an odd p is at the bottom.
C18_PaddingGeometry ==
    Padded =>
        LET p == crop_params.pad_height
        IN  /\ output.width = W
            /\ output.height = H + p
            /\ output.left = 0
            /\ output.top = p \div 2
            /\ output.bottom = p - p \div 2
            /\ output.bottom - output.top \in {0, 1}
            /\ p % 2 = 1 => output.bottom = output.top + 1
            /\ p % 2 = 0 => output.bottom = output.top

\* an odd pad amount: 5 rows are split 2 above and 3 below
C18_Witness ==
    /\ Padded
    /\ crop_params.pad_height = 5
    /\ output.top = 2
    /\ output.bottom = 3
    /\ output.height = H + 5

\* a pad amount of zero leaves the frame as it is
C18_ZeroPadReached ==
    /\ Padded
    /\ crop_params.pad_height = 0
    /\ output.height = H
    /\ output.top = 0
    /\ output.bottom = 0

----------------------------------------------------------------------------
(* C19 *)

\* the moves of a job's status: queued -> uploading -> completed or failed
LegalMove(old, new) ==
    \/ old = new
    \/ old = "queued" /\ new = "uploading"
    \/ old = "uploading" /\ new \in {"completed", "failed"}

\* the jobs of the queue
QueuedIds(queue) == {queue[k].id : k \in 1..Len(queue)}

\* C19: under any interleaving of schedule_upload requests and timer-driven
\* process_upload_queue runs, the status of a job only moves
\* queued -> uploading -> completed or failed (a completed or failed job
\* never changes again, none goes back to uploading or queued), and a job
\* leaves upload_queue only after its status has become completed or
\* failed.  Stated for the jobs of the status map: the jobs that
\* schedule_upload dropped together with their status are not counted.
C19_JobLifecycle ==
    [][ /\ \A id \in DOMAIN upload_status \cap DOMAIN upload_status' :
              LegalMove(upload_status[id], upload_status'[id])
        /\ \A id \in (QueuedIds(upload_queue) \ QueuedIds(upload_queue'))
                         \cap DOMAIN upload_status' :
              upload_status'[id] \in {"completed", "failed"}
      ]_vars

\* a job that was completed is set to failed by a second worker
C19_CompletedOverwrittenReached ==
    \E k \in 1..Len(history) :
       /\ history[k].status = "completed"
       /\ history[k].id \in DOMAIN upload_status
       /\ upload_status[history[k].id] = "failed"

\* a job is no longer in the queue although it is still queued
C19_QueuedJobPoppedReached ==
    \E id \in DOMAIN upload_status :
       /\ upload_status[id] = "queued"
       /\ id \notin QueuedIds(upload_queue)

----------------------------------------------------------------------------
(* C20 *)

\* C20: at any time at most one invocation of process_upload_queue is
\* between reading upload_queue[0] and popping it, also when schedule_upload
\* is called again while an earlier batch is being uploaded; no job is
\* uploaded by two workers.
C20_SingleWorker ==
    /\ Cardinality(Running) <= 1
    /\ \A n, m \in 1..Len(workers) :
          n # m => workers[n].job.id # workers[m].job.id

\* two workers upload the same job at the same time
C20_DoubleUploadReached ==
    \E n, m \in Running :
       /\ n # m
       /\ workers[n].job.id = workers[m].job.id
       /\ workers[n].pc = "uploading"
       /\ workers[m].pc = "uploading"

\* with a single request the workers follow one another
C20_OneRequestOneWorker ==
    (requests <= 1) => C20_SingleWorker

----------------------------------------------------------------------------
(* C21 *)

\* no timer is pending and no invocation of process_upload_queue is under
\* way: nothing will touch the queue until the next request
UploadQuiet == timers = 0 /\ Running = {}

\* every job of the status map, which holds the jobs of the most recent
\* schedule_upload, has reached completed or failed
AllJobsSettled ==
    \A id \in DOMAIN upload_status :
       upload_status[id] \in {"completed", "failed"}

\* no job is taken by two invocations of process_upload_queue
AttemptedAtMostOnce ==
    \A n, m \in 1..Len(workers) :
       n # m => workers[n].job.id # workers[m].job.id

\* the step is the pop of worker n
PopsBy(n) ==
    /\ n \in 1..Len(workers)
    /\ workers[n].pc = "finished"
    /\ workers'[n].pc = "returned"

\* C21: every job queued by the most recent schedule_upload is attempted
\* exactly once and reaches completed or failed (stated on finite runs: when
\* all timers have fired and all uploads have returned no job is left
\* unsettled, and no job is taken twice), and the entry removed by
\* upload_queue.pop(0) is the job that run uploaded, also when
\* schedule_upload replaced the queue during the run.
C21_NoJobLost ==
    [][ /\ UploadQuiet' => AllJobsSettled'
        /\ AttemptedAtMostOnce'
        /\ \A n \in 1..Len(workers) :
              PopsBy(n) => Head(upload_queue).id = workers[n].job.id
      ]_vars

\* the three parts hold as long as a single request is served
C21_HoldsForOneRequest ==
    [][ requests' <= 1 =>
            /\ UploadQuiet' => AllJobsSettled'
            /\ AttemptedAtMostOnce'
            /\ \A n \in 1..Len(workers) :
                  PopsBy(n) => Head(upload_queue).id = workers[n].job.id
      ]_vars

\* the pop of a worker removes a job it did not upload
C21_WrongJobPopped ==
    [][\A n \in 1..Len(workers) :
          PopsBy(n) => Head(upload_queue).id = workers[n].job.id]_vars

\* a job of the latest request is still queued although nothing is left to
\* run: a worker of the replaced batch popped it
C21_JobLostReached ==
    /\ UploadQuiet
    /\ requests = MaxRequests
    /\ \E id \in DOMAIN upload_status : upload_status[id] = "queued"

----------------------------------------------------------------------------
(* C22 *)

\* the jobs some invocation of process_upload_queue has finished (status
\* written, history appended) and no invocation is uploading
FinishedIds ==
    {workers[n].job.id :
        n \in {m \in 1..Len(workers) :
                  workers[m].pc \in {"finished", "returned"}}}
    \ {workers[n].job.id :
          n \in {m \in 1..Len(workers) : workers[m].pc = "uploading"}}

\* the history entries of a job
EntriesOf(id) == {k \in 1..Len(history) : history[k].id = id}

\* every finished job has exactly one history entry, whose status is
\* completed or failed and is the status of the job in the status map
OneEntryPerFinishedJob ==
    \A id \in FinishedIds :
       /\ Cardinality(EntriesOf(id)) = 1
       /\ \A k \in EntriesOf(id) :
             /\ history[k].status \in {"completed", "failed"}
             /\ id \in DOMAIN upload_status =>
                    upload_status[id] = history[k].status

Scanned == "videos" \in DOMAIN scan

\* the file has an entry of the status in the history the scan loaded
HadEntry(filename, status) ==
    \E k \in 1..Len(scan.history) :
       /\ scan.history[k].filename = filename
       /\ scan.history[k].status = status

\* a scan reports every listed video; one with a completed entry as
\* duplicate and not valid, whatever its ratio and its failed entries; one
\* with failed entries only as retry and valid
ScanReportsHistory ==
    Scanned =>
        /\ DOMAIN scan.videos = DOMAIN scan.files \cap {"a.mp4", "b.mp4"}
        /\ \A f \in DOMAIN scan.videos :
              /\ HadEntry(f, "completed") =>
                    /\ scan.videos[f].status_type = "duplicate"
                    /\ scan.videos[f].valid = FALSE
              /\ (HadEntry(f, "failed") /\ ~HadEntry(f, "completed")) =>
                    /\ scan.videos[f].status_type = "retry"
                    /\ scan.videos[f].valid = TRUE

\* C22: every job process_upload_queue finishes appends exactly one history
\* entry whose status (completed or failed) is the final status of the job;
\* once a filename has a completed entry every later scan_folder reports it
\* as duplicate with valid false, whatever its aspect ratio and its failed
\* entries, and a filename with failed entries only is reported as retry
\* with valid true.
C22_HistoryAndDuplicates ==
    /\ OneEntryPerFinishedJob
    /\ ScanReportsHistory

\* the part about scan_folder, which holds in every state
C22_ScanPartHolds == ScanReportsHistory

\* both parts hold as long as a single request is served
C22_HoldsForOneRequest ==
    requests <= 1 => C22_HistoryAndDuplicates

\* a file with a failed and a completed entry and a wrong aspect ratio is
\* reported as duplicate
C22_DuplicateReached ==
    /\ Scanned
    /\ \E f \in DOMAIN scan.videos :
          /\ HadEntry(f, "completed")
          /\ HadEntry(f, "failed")
          /\ scan.files[f].readable /\ ~scan.files[f].ratio_ok
          /\ scan.videos[f].status_type = "duplicate"

\* a file with failed entries only is reported as retry
C22_RetryReached ==
    /\ Scanned
    /\ \E f \in DOMAIN scan.videos :
          /\ HadEntry(f, "failed")
          /\ ~HadEntry(f, "completed")
          /\ ~scan.files[f].readable
          /\ scan.videos[f].status_type = "retry"
          /\ scan.videos[f].valid

\* one job has a completed and a failed entry
C22_TwoEntriesReached ==
    \E j, k \in 1..Len(history) :
       /\ history[j].id = history[k].id
       /\ history[j].status = "completed"
       /\ history[k].status = "failed"

----------------------------------------------------------------------------
(* C23 *)

\* C23: for every positive w and h and every subject center, a crop_width
\* or crop_height plan returned by calculate_crop_parameters has
\* crop_width >= 1 and crop_height >= 1: the rectangle handed to the encoder
\* is never empty.
C23_NonEmptyCropWindow ==
    (Called /\ Operation(crop_params) \in {"crop_width", "crop_height"}) =>
        /\ crop_params.crop_width >= 1
        /\ crop_params.crop_height >= 1

\* the window is empty only for frames of a single row
C23_HoldsFromTwoRows ==
    (Called /\ H >= 2) => C23_NonEmptyCropWindow

\* every frame of one row that is planned gets an empty window
C23_OneRowIsEmpty ==
    (Called /\ H = 1) =>
        /\ Operation(crop_params) = "crop_width"
        /\ crop_params.crop_width = 0

====
